---- MODULE Spec2Model ----
(***************************************************************************)
(* news_weaver: the Extract / Transform / Load pipeline.                   *)
(*   extractor/extractor.py     Fetch of one source into ScrapedFile rows  *)
(*   transformer/transformer.py batch claim, extraction dispatch, delivery *)
(*   loader/loader.py           the keyed content store behind the HTTP API*)
(* The pipeline store (sources, scraped_files) and the content store       *)
(* (articles, documents, spreadsheets, images) are modelled by their       *)
(* committed contents; uncommitted session state lives in the variables of *)
(* the run that owns the session.                                          *)
(***************************************************************************)
EXTENDS Integers, Sequences, FiniteSets, TLC

\* ---------------------------------------------------------------- bounds
MaxPosts == 3          \* POSTs sent by the HTTP clients of LoaderSpec
MaxId    == 2          \* source_file_id values those clients use
MaxFiles == 2          \* ScrapedFile rows the Fetch runs may create
MaxClock == 1          \* int(time.time()) ranges over 0..MaxClock

\* ------------------------------------------------------- program constants
SecretKey == "supersecretkey"    \* CONFIG["api"]["secret_key"] of the Loader
NoKey     == "<missing>"         \* request without an X-API-Key header
Keys      == {SecretKey, "wrongkey", NoKey}
Endpoints == {"articles", "documents", "spreadsheets", "images"}
Clients   == {1, 2}              \* concurrent HTTP connections to the Loader
Bodies    == {"c1", "c2"}        \* kind-specific payload fields
NetErr    == 0                   \* in place of a status: httpx.RequestError

NoReq == [state |-> "none"]
NoFetch == [source |-> 0, status |-> 0, dirExists |-> FALSE, dir |-> {},
            err |-> "NULL", handled |-> {}, live |-> {}]

\* transformer.py:277  .limit(50), scaled down so that a backlog of more rows
\* than one batch holds stays small
BatchLimit  == 2
\* transformer.py:167  for attempt in range(3)
MaxAttempts == 3

NULL == "NULL"
Never == -1                      \* last_scraped_at IS NULL
Runs == {1, 2}                   \* Transform processes that may overlap
SerialRuns == {1}                \* the cron starts one Transform at a time
HttpSource  == 1                 \* sources row with source_type "http"
LocalSource == 2                 \* sources row with source_type "local"
Sources == {HttpSource, LocalSource}
LocalNames == {"a.html", "b.bin"}     \* files the local directory may hold
\* status codes an HTTP peer may answer a delivery POST with
StatusCodes == {200, 201, 204, 299, 300, 403, 409, 422, 500}

VARIABLES
    store,      \* content store: endpoint -> sequence of rows, pk = position
    req,        \* per client: the request the Loader is handling for it
    nposts,     \* POSTs sent so far by the clients of LoaderSpec
    files,      \* scraped_files (committed): sequence of rows, id = position
    last_scraped_at,   \* sources.last_scraped_at (committed)
    blobs,      \* paths that exist under SCRAPED_DATA_DIR
    now,        \* int(time.time())
    client_key, \* CONFIG["api"]["secret_key"] as the Transformer reads it
    pc,         \* per Transform run: where it is
    pending_files,     \* per run: the rows its query returned
    idx,        \* per run: position in pending_files being processed
    outcomes,   \* per run: outcome of each attempt of the send_to_loader call
    waits,      \* per run: time.sleep(2) calls of the send_to_loader call
    success,    \* per run: return value of the send_to_loader call (when returned)
    fetch_log   \* what the last Fetch run met (its log lines)

loaderVars   == <<store, req, nposts>>
pipelineVars == <<files, last_scraped_at, blobs, now, client_key, fetch_log>>
runVars      == <<pc, pending_files, idx, outcomes, waits, success>>
vars == <<store, req, nposts, files, last_scraped_at, blobs, now, client_key,
          pc, pending_files, idx, outcomes, waits, success, fetch_log>>

\* ------------------------------------------------------------ the Loader

\* a handler whose existence query finds nothing
ExistingRecordNever(ep, id) == FALSE

\* db.query(Model).filter(Model.source_file_id == item.source_file_id).first()
ExistingRecord(ep, id) ==
    \E i \in 1..Len(store[ep]) : store[ep][i].source_file_id = id

\* a column without its unique constraint
UniqueViolationNever(ep, id) == FALSE

\* Column(Integer, unique=True): the commit of a second row with the same
\* source_file_id raises IntegrityError
UniqueViolation(ep, id) ==
    \E i \in 1..Len(store[ep]) : store[ep][i].source_file_id = id

verify_api_key(x_api_key) == x_api_key = SecretKey

Response(code, msg) == [code |-> code, msg |-> msg]

Answer(c, resp) ==
    req' = [req EXCEPT ![c] = [state |-> "answered", ep |-> req[c].ep,
                                item |-> req[c].item, key |-> req[c].key,
                                resp |-> resp]]

\* The first half of create_article / create_document / create_spreadsheet /
\* create_image: the dependencies (header, key) and the existence query.
LoaderCheck(c) ==
    /\ req[c].state = "arrived"
    /\ UNCHANGED <<store, nposts, pipelineVars, runVars>>
    /\ IF req[c].key = NoKey
         THEN Answer(c, Response(422, "Field required"))
       ELSE IF ~verify_api_key(req[c].key)
         THEN Answer(c, Response(403, "Invalid API Key"))
       ELSE IF ExistingRecord(req[c].ep, req[c].item.source_file_id)
         THEN Answer(c, Response(201, "Already exists"))
       ELSE req' = [req EXCEPT ![c].state = "checked"]

\* The second half: db.add, db.commit; any exception is rolled back and
\* answered with 500.  storeOk = FALSE is a store error other than the
\* unique constraint (locked or full database).
LoaderCommit(c) ==
    /\ req[c].state = "checked"
    /\ UNCHANGED <<nposts, pipelineVars, runVars>>
    /\ \E storeOk \in BOOLEAN :
         IF storeOk /\ ~UniqueViolation(req[c].ep, req[c].item.source_file_id)
           THEN /\ store' = [store EXCEPT ![req[c].ep] = Append(@, req[c].item)]
                /\ Answer(c, Response(201, "success"))
           ELSE /\ UNCHANGED store
                /\ Answer(c, Response(500, "Database error"))

\* ------------------------------------------- HTTP clients of LoaderSpec

ClientPost(c) ==
    /\ req[c].state = "none"
    /\ nposts < MaxPosts
    /\ \E ep \in Endpoints, k \in Keys, id \in 1..MaxId, b \in Bodies :
         req' = [req EXCEPT ![c] =
                   [state |-> "arrived", ep |-> ep, key |-> k,
                    item |-> [source_file_id |-> id, body |-> b]]]
    /\ nposts' = nposts + 1
    /\ UNCHANGED <<store, pipelineVars, runVars>>

ClientDone(c) ==
    /\ req[c].state = "answered"
    /\ req' = [req EXCEPT ![c] = NoReq]
    /\ UNCHANGED <<store, nposts, pipelineVars, runVars>>

\* ------------------------------------------------------------- the Fetch

\* the last path segment of sources.url; the registered feed is
\* https://news.ycombinator.com/rss
UrlTail(s) == IF s = HttpSource THEN "rss" ELSE ""

\* replies the GET of process_http_source may receive: status, Content-Type
\* and the filename of a Content-Disposition header (NULL: no such header)
HttpReplies ==
    { [status |-> 200, content_type |-> "text/html", disposition |-> NULL],
      [status |-> 204, content_type |-> "text/html", disposition |-> NULL],
      [status |-> 404, content_type |-> "text/html", disposition |-> NULL] }

get_filename_from_response(response, s) ==
    IF response.disposition # NULL THEN response.disposition
    ELSE IF UrlTail(s) # "" THEN UrlTail(s)
    ELSE "index.html"

\* save_content: the path is SCRAPED_DATA_DIR/{source_id}_{timestamp}_{filename}
SavedPath(source_id, filename) == <<source_id, now, filename>>

\* mimetypes.guess_type on the entry's name
GuessType(name) ==
    IF name = "a.html" THEN "text/html" ELSE "application/octet-stream"

\* f"size={st_size}_mtime={st_mtime}" of an entry (the directory's files do
\* not change)
Signature(name) == "size_mtime_of_" \o name

NewFile(source_id, path, filename, mimetype, notes) ==
    [source_id |-> source_id, local_path |-> path, filename |-> filename,
     mimetype |-> mimetype, status |-> "SCRAPED", retry_count |-> 0,
     notes |-> notes]

\* a test that takes every answer for a miss
HttpMissFrom200(status_code) == status_code >= 200

\* a test that lets client errors through
HttpMissServerOnly(status_code) == status_code >= 500

\* resp.status_code >= 400: return before anything is saved
HttpMiss(status_code) == status_code >= 400

\* process_http_source, one GET that ends in reply (transportOk = FALSE: in
\* httpx.RequestError).  A transport error and a status >= 400 return without
\* any write.
FetchHttp(s, reply, transportOk) ==
    /\ s = HttpSource
    /\ UNCHANGED <<loaderVars, runVars, now, client_key>>
    /\ IF ~transportOk
         THEN UNCHANGED <<files, last_scraped_at, blobs>>
       ELSE IF HttpMiss(reply.status)
         THEN UNCHANGED <<files, last_scraped_at, blobs>>
       ELSE LET filename == get_filename_from_response(reply, s)
                saved_path == SavedPath(s, filename)
            IN  /\ Len(files) < MaxFiles
                /\ blobs' = blobs \cup {saved_path}
                /\ files' = Append(files, NewFile(s, saved_path, filename,
                                                  reply.content_type, NULL))
                /\ last_scraped_at' = [last_scraped_at EXCEPT ![s] = now]

\* a query that looks for a row of any status
ExistingFileAnyStatus(s, name) ==
    \E i \in 1..Len(files) : files[i].source_id = s /\ files[i].filename = name

\* a query that looks for SCRAPED rows only
ExistingFileScrapedOnly(s, name) ==
    \E i \in 1..Len(files) :
        /\ files[i].source_id = s
        /\ files[i].filename = name
        /\ files[i].status = "SCRAPED"

\* the query of process_local_source: a row of this source and filename that
\* is SCRAPED or PROCESSING
ExistingFile(s, name) ==
    \E i \in 1..Len(files) :
        /\ files[i].source_id = s
        /\ files[i].filename = name
        /\ files[i].status \in {"SCRAPED", "PROCESSING"}

\* the sequences that list the set S once each (os.scandir order)
Orderings(S) ==
    { q \in [1..Cardinality(S) -> S] : \A n \in S : \E i \in DOMAIN q : q[i] = n }

\* the inputs a sweep may meet: the directory exists or not, its listing dir,
\* the entry err whose stat or read raises (NULL: none) and the entries
\* handled before that one
SweepInputs ==
    { [dirExists |-> d, dir |-> l, err |-> e, handled |-> h] :
        d \in BOOLEAN, l \in SUBSET LocalNames, e \in LocalNames \cup {NULL},
        h \in SUBSET LocalNames }

\* a sweep that commits after every entry: an error keeps the rows added
\* before it
FetchLocalPerEntry(s, inp) ==
    /\ s = LocalSource
    /\ inp.err # NULL => inp.err \in inp.dir
    /\ inp.handled \subseteq inp.dir \ {inp.err}
    /\ inp.err = NULL => inp.handled = inp.dir
    /\ ~inp.dirExists => inp.dir = {} /\ inp.err = NULL
    /\ UNCHANGED <<loaderVars, runVars, now, client_key>>
    /\ IF ~inp.dirExists
         THEN UNCHANGED <<files, last_scraped_at, blobs>>
       ELSE LET ingest == { n \in inp.handled :
                              ~ \E i \in 1..Len(files) :
                                   /\ files[i].source_id = s
                                   /\ files[i].filename = n
                                   /\ files[i].status \in {"SCRAPED", "PROCESSING"} }
            IN  /\ blobs' = blobs \cup { SavedPath(s, n) : n \in ingest }
                /\ Len(files) + Cardinality(ingest) <= MaxFiles
                /\ \E q \in Orderings(ingest) :
                     files' = files \o
                       [i \in DOMAIN q |->
                          NewFile(s, SavedPath(s, q[i]), q[i],
                                  GuessType(q[i]), Signature(q[i]))]
                /\ last_scraped_at' =
                     IF inp.err = NULL THEN [last_scraped_at EXCEPT ![s] = now]
                     ELSE last_scraped_at

\* process_local_source, one sweep.  Without an error the loop handles every
\* entry and the session commits; with one the rows added so far are dropped.
FetchLocal(s, inp) ==
    /\ s = LocalSource
    /\ inp.err # NULL => inp.err \in inp.dir
    /\ inp.handled \subseteq inp.dir \ {inp.err}
    /\ inp.err = NULL => inp.handled = inp.dir
    /\ ~inp.dirExists => inp.dir = {} /\ inp.err = NULL
    /\ UNCHANGED <<loaderVars, runVars, now, client_key>>
    /\ IF ~inp.dirExists
         THEN UNCHANGED <<files, last_scraped_at, blobs>>
       ELSE LET ingest == { n \in inp.handled : ~ExistingFile(s, n) }
            IN  /\ blobs' = blobs \cup { SavedPath(s, n) : n \in ingest }
                /\ IF inp.err = NULL
                     THEN /\ Len(files) + Cardinality(ingest) <= MaxFiles
                          /\ \E q \in Orderings(ingest) :
                               files' = files \o
                                 [i \in DOMAIN q |->
                                    NewFile(s, SavedPath(s, q[i]), q[i],
                                            GuessType(q[i]), Signature(q[i]))]
                          /\ last_scraped_at' =
                               [last_scraped_at EXCEPT ![s] = now]
                     ELSE UNCHANGED <<files, last_scraped_at>>

\* the Fetch runs of the cron, one per source
FetchHttpRun ==
    /\ \E reply \in HttpReplies, transportOk \in BOOLEAN :
         FetchHttp(HttpSource, reply, transportOk)
    /\ UNCHANGED fetch_log

FetchLocalRun ==
    /\ \E inp \in SweepInputs : FetchLocal(LocalSource, inp)
    /\ UNCHANGED fetch_log

\* the rows of a source and filename that are SCRAPED or PROCESSING
LiveRows(s, name) ==
    { i \in 1..Len(files) : /\ files[i].source_id = s
                            /\ files[i].filename = name
                            /\ files[i].status \in {"SCRAPED", "PROCESSING"} }

\* a Fetch run whose inputs are kept for inspection: the reply of the GET, or
\* the sweep's inputs and the handled entries that had a SCRAPED or PROCESSING
\* row when the sweep met them
FetchHttpLogged ==
    \E reply \in HttpReplies, transportOk \in BOOLEAN :
      /\ FetchHttp(HttpSource, reply, transportOk)
      /\ fetch_log' = [source |-> HttpSource, dirExists |-> FALSE, dir |-> {},
                       err |-> NULL, handled |-> {}, live |-> {},
                       status |-> IF transportOk THEN reply.status ELSE NetErr]

FetchLocalLogged ==
    \E inp \in SweepInputs :
      /\ FetchLocal(LocalSource, inp)
      /\ fetch_log' = [source |-> LocalSource, dirExists |-> inp.dirExists,
                       dir |-> inp.dir, err |-> inp.err, handled |-> inp.handled,
                       live |-> { n \in inp.handled : LiveRows(LocalSource, n) # {} },
                       status |-> 0]

\* ------------------------------------------------------- the environment

Tick ==
    /\ now < MaxClock
    /\ now' = now + 1
    /\ UNCHANGED <<loaderVars, runVars, files, last_scraped_at, blobs, client_key,
                   fetch_log>>

\* a blob is removed from SCRAPED_DATA_DIR by something outside the pipeline
DeleteBlob ==
    /\ \E p \in blobs : blobs' = blobs \ {p}
    /\ UNCHANGED <<loaderVars, runVars, files, last_scraped_at, now, client_key,
                   fetch_log>>

\* --------------------------------------------------------- the Transform

\* the keywords of process_file_record's dispatch that occur in a MIME type
\* (the `in` substring tests on file_record.mimetype.lower())
\* file_record.mimetype.lower()
Lower(mime) ==
    CASE mime = "TEXT/HTML"        -> "text/html"
      [] mime = "APPLICATION/JSON" -> "application/json"
      [] OTHER                     -> mime

\* the words of the dispatch chain that occur in a lower-case MIME type
MimeWords(mime) ==
    CASE mime = "text/html"       -> {"text", "html"}
      [] mime = "application/pdf" -> {"pdf"}
      [] mime = "application/vnd.openxmlformats-officedocument.wordprocessingml.document"
                                  -> {"wordprocessing"}
      [] mime = "application/vnd.openxmlformats-officedocument.spreadsheetml.sheet"
                                  -> {"spreadsheet"}
      [] mime = "application/vnd.ms-excel" -> {"excel"}
      [] mime = "image/png"       -> {"image"}
      [] mime = "text/plain"      -> {"text"}
      [] mime = "text/csv"        -> {"text"}
      [] mime = "application/xhtml+xml" -> {"html"}
      [] mime = "text/pdf"        -> {"text", "pdf"}
      [] mime = "image/vnd.ms-excel" -> {"image", "excel"}
      [] mime = "application/pdf+html" -> {"pdf", "html"}
      [] OTHER                    -> {}

\* values of scraped_files.mimetype: a Content-Type header as the server sent
\* it, or the guess of mimetypes.guess_type
MimeTypes ==
    { "text/html", "TEXT/HTML", "application/xhtml+xml", "application/pdf",
      "application/vnd.openxmlformats-officedocument.wordprocessingml.document",
      "application/vnd.openxmlformats-officedocument.spreadsheetml.sheet",
      "application/vnd.ms-excel", "image/png", "text/plain", "text/csv",
      "text/pdf", "image/vnd.ms-excel", "application/pdf+html",
      "application/json", "APPLICATION/JSON", "application/octet-stream" }

\* a chain that tries the text fallback first
DispatchTextFirst(mime) ==
    LET w == MimeWords(Lower(mime))
    IN  IF "text" \in w THEN "documents"
        ELSE IF "html" \in w THEN "articles"
        ELSE IF "pdf" \in w \/ "wordprocessing" \in w THEN "documents"
        ELSE IF "spreadsheet" \in w \/ "excel" \in w THEN "spreadsheets"
        ELSE IF "image" \in w THEN "images"
        ELSE ""

\* a chain whose fallback takes every type for text
DispatchAnyText(mime) ==
    LET w == MimeWords(Lower(mime))
    IN  IF "html" \in w THEN "articles"
        ELSE IF "pdf" \in w \/ "wordprocessing" \in w THEN "documents"
        ELSE IF "spreadsheet" \in w \/ "excel" \in w THEN "spreadsheets"
        ELSE IF "image" \in w THEN "images"
        ELSE "documents"

\* the if / elif chain of process_file_record; "" stands for the ValueError
\* "Unsupported mimetype"
Dispatch(mime) ==
    LET w == MimeWords(Lower(mime))
    IN  IF "html" \in w THEN "articles"
        ELSE IF "pdf" \in w \/ "wordprocessing" \in w THEN "documents"
        ELSE IF "spreadsheet" \in w \/ "excel" \in w THEN "spreadsheets"
        ELSE IF "image" \in w THEN "images"
        ELSE IF "text" \in w THEN "documents"
        ELSE ""

\* a filter that takes delivered rows too
SelectableAlsoDone(status) ==
    status \in {"SCRAPED", "LOAD_FAILED", "PROCESSED_SUCCESSFULLY"}

\* a filter that takes rows in PROCESSING too
SelectableWithProcessing(status) == status \in {"SCRAPED", "LOAD_FAILED", "PROCESSING"}

\* ScrapedFile.status.in_(["SCRAPED", "LOAD_FAILED"])
Selectable(status) == status \in {"SCRAPED", "LOAD_FAILED"}

Eligible == { i \in 1..Len(files) : Selectable(files[i].status) }

Min(a, b) == IF a < b THEN a ELSE b

\* the rows a query with .limit(BatchLimit) and no ORDER BY may return
Batches ==
    { S \in SUBSET Eligible : Cardinality(S) = Min(BatchLimit, Cardinality(Eligible)) }

Ascending(S) ==
    CHOOSE q \in Orderings(S) : \A i, j \in DOMAIN q : i < j => q[i] < q[j]

\* main, the query.  With no row to process the run returns at once.
TSelect(r) ==
    /\ pc[r] = "idle"
    /\ Eligible # {}
    /\ \E S \in Batches : pending_files' = [pending_files EXCEPT ![r] = Ascending(S)]
    /\ pc' = [pc EXCEPT ![r] = "selected"]
    /\ UNCHANGED <<loaderVars, pipelineVars, idx, outcomes, waits, success>>

\* a run that goes to work without marking its rows
InBatchNone(r, i) == FALSE

\* a loop that marks the first row only
InBatchFirst(r, i) == pending_files[r][1] = i

InBatch(r, i) == \E k \in DOMAIN pending_files[r] : pending_files[r][k] = i

\* main: for f in pending_files: f.status = "PROCESSING"; session.commit().
\* The UPDATE names each row by its primary key only.
TClaim(r) ==
    /\ pc[r] = "selected"
    /\ files' = [i \in DOMAIN files |->
                   IF InBatch(r, i) THEN [files[i] EXCEPT !.status = "PROCESSING"]
                   ELSE files[i]]
    /\ pc' = [pc EXCEPT ![r] = "file"]
    /\ idx' = [idx EXCEPT ![r] = 1]
    /\ UNCHANGED <<loaderVars, last_scraped_at, blobs, now, client_key, fetch_log,
                   pending_files, outcomes, waits, success>>

Current(r) == pending_files[r][idx[r]]

\* a session that deletes the row of a failed extraction
SetStatusPurge(f, status, notes) ==
    files' = IF status = "TRANSFORM_FAILED" /\ f = Len(files)
               THEN SubSeq(files, 1, Len(files) - 1)
               ELSE [files EXCEPT ![f].status = status, ![f].notes = notes]

\* a commit that counts the failed deliveries of a row
SetStatusCountRetry(f, status, notes) ==
    files' = [files EXCEPT ![f].status = status, ![f].notes = notes,
                           ![f].retry_count = IF status = "LOAD_FAILED"
                                                THEN @ + 1 ELSE @]

\* a commit that marks a failed delivery by rewriting the MIME type of the row
SetStatusRetype(f, status, notes) ==
    files' = [files EXCEPT ![f].status = status, ![f].notes = notes,
                           ![f].mimetype = IF status = "LOAD_FAILED"
                                             THEN "text/plain" ELSE @]

\* a finally block that commits a success and rolls a failure back
SetStatusSuccessOnly(f, status, notes) ==
    files' = IF status = "PROCESSED_SUCCESSFULLY"
               THEN [files EXCEPT ![f].status = status, ![f].notes = notes]
               ELSE files

\* a status that is set and never committed
SetStatusNoCommit(f, status, notes) == UNCHANGED files

\* a commit that writes the status and leaves the note as it was
SetStatusKeepNotes(f, status, notes) ==
    files' = [files EXCEPT ![f].status = status]

\* file_record.status = ...; file_record.notes = ...; db_session.commit()
SetStatus(f, status, notes) ==
    files' = [files EXCEPT ![f].status = status, ![f].notes = notes]

\* a loop that stops after its first file
NextFileStop(r) ==
    /\ idx' = [idx EXCEPT ![r] = 0]
    /\ pc' = [pc EXCEPT ![r] = "idle"]
    /\ pending_files' = [pending_files EXCEPT ![r] = << >>]

\* the for loop of main moves to the next row, or main returns
NextFile(r) ==
    IF idx[r] < Len(pending_files[r])
      THEN /\ idx' = [idx EXCEPT ![r] = idx[r] + 1]
           /\ pc' = [pc EXCEPT ![r] = "file"]
           /\ UNCHANGED pending_files
      ELSE /\ idx' = [idx EXCEPT ![r] = 0]
           /\ pc' = [pc EXCEPT ![r] = "idle"]
           /\ pending_files' = [pending_files EXCEPT ![r] = << >>]

\* a test that finds every path
BlobExistsAlways(path) == TRUE

\* os.path.exists(file_record.local_path)
BlobExists(path) == path \in blobs

\* process_file_record up to the call of send_to_loader: the os.path.exists
\* test, the dispatch and the extraction (extracted = FALSE: the extraction
\* library raises).
ProcessFileStart(r) ==
    /\ pc[r] = "file"
    /\ UNCHANGED <<loaderVars, last_scraped_at, blobs, now, client_key, fetch_log,
                   waits, success>>
    /\ LET f == Current(r)
           endpoint == Dispatch(files[f].mimetype)
       IN  IF ~BlobExists(files[f].local_path)
             THEN /\ SetStatus(f, "TRANSFORM_FAILED", "File not found on disk")
                  /\ NextFile(r)
                  /\ UNCHANGED outcomes
           ELSE IF endpoint = ""
             THEN /\ SetStatus(f, "TRANSFORM_FAILED",
                               "Unsupported mimetype: " \o Lower(files[f].mimetype))
                  /\ NextFile(r)
                  /\ UNCHANGED outcomes
           ELSE \E extracted \in BOOLEAN :
                  IF ~extracted
                    THEN /\ SetStatus(f, "TRANSFORM_FAILED", "extraction error")
                         /\ NextFile(r)
                         /\ UNCHANGED outcomes
                    ELSE /\ pc' = [pc EXCEPT ![r] = "send"]
                         /\ outcomes' = [outcomes EXCEPT ![r] = << >>]
                         /\ UNCHANGED <<files, idx, pending_files>>

\* a client that takes every answered request for a success
IsSuccessAnyStatus(outcome) == outcome # NetErr

\* a client that takes the whole 2xx class for a success
IsSuccess2xx(outcome) == outcome \in 200..299 \/ outcome = 409

\* a client that fails on store errors only
IsSuccessBelow500(outcome) == outcome # NetErr /\ outcome < 500

\* response.status_code in (200, 201), or == 409
IsSuccess(outcome) == outcome \in {200, 201} \/ outcome = 409

\* a loop that sleeps after every attempt that did not succeed
SleepsAfterFailure(outcome, attempt) == outcome \notin {200, 201, 409}

\* the except branch of send_to_loader sleeps after the attempt
SleepsAfter(outcome, attempt) == outcome = NetErr

\* one pass of the for loop of send_to_loader, the attempt ending in outcome
Attempt(r, outcome) ==
    LET outs == Append(outcomes[r], outcome)
    IN  /\ outcomes' = [outcomes EXCEPT ![r] = outs]
        /\ waits' = [waits EXCEPT ![r] =
                       IF SleepsAfter(outcome, Len(outs)) THEN @ + 1 ELSE @]
        /\ IF IsSuccess(outcome)
             THEN /\ success' = [success EXCEPT ![r] = TRUE]
                  /\ pc' = [pc EXCEPT ![r] = "returned"]
           ELSE IF Len(outs) = MaxAttempts
             THEN /\ success' = [success EXCEPT ![r] = FALSE]
                  /\ pc' = [pc EXCEPT ![r] = "returned"]
           ELSE /\ UNCHANGED success
                /\ pc' = [pc EXCEPT ![r] = "send"]

\* client.post: the request reaches the Loader, or the connection fails
TPost(r) ==
    /\ pc[r] = "send"
    /\ UNCHANGED <<store, nposts, pipelineVars, pending_files, idx>>
    /\ \E reached \in BOOLEAN :
         IF reached
           THEN /\ req' = [req EXCEPT ![r] =
                     [state |-> "arrived",
                      ep |-> Dispatch(files[Current(r)].mimetype),
                      key |-> client_key,
                      item |-> [source_file_id |-> Current(r),
                                body |-> files[Current(r)].local_path]]]
                /\ pc' = [pc EXCEPT ![r] = "await"]
                /\ UNCHANGED <<outcomes, waits, success>>
           ELSE /\ Attempt(r, NetErr)
                /\ UNCHANGED req

\* the response arrives, or the read times out although the Loader answered
TReceive(r) ==
    /\ pc[r] = "await"
    /\ req[r].state = "answered"
    /\ req' = [req EXCEPT ![r] = NoReq]
    /\ \E outcome \in {req[r].resp.code, NetErr} : Attempt(r, outcome)
    /\ UNCHANGED <<store, nposts, pipelineVars, pending_files, idx>>

\* process_file_record after send_to_loader returned: the status, the note
\* and the commit of the finally block
TCommitFile(r) ==
    /\ pc[r] = "returned"
    /\ IF success[r]
         THEN SetStatus(Current(r), "PROCESSED_SUCCESSFULLY", NULL)
         ELSE SetStatus(Current(r), "LOAD_FAILED", "API unreachable or returned error")
    /\ NextFile(r)
    /\ outcomes' = [outcomes EXCEPT ![r] = << >>]
    /\ waits' = [waits EXCEPT ![r] = 0]
    /\ success' = [success EXCEPT ![r] = FALSE]
    /\ UNCHANGED <<loaderVars, last_scraped_at, blobs, now, client_key, fetch_log>>

\* The Transform process stops in the middle of a batch: it is killed, or an
\* exception leaves process_file_record (the Source query, the commit of the
\* finally block) and main logs it and closes the session.  What the session
\* had committed stays; a request already sent is still handled by the Loader.
Crash(r) ==
    /\ pc[r] \in {"file", "send", "await", "returned"}
    /\ pc' = [pc EXCEPT ![r] = "idle"]
    /\ pending_files' = [pending_files EXCEPT ![r] = << >>]
    /\ idx' = [idx EXCEPT ![r] = 0]
    /\ outcomes' = [outcomes EXCEPT ![r] = << >>]
    /\ waits' = [waits EXCEPT ![r] = 0]
    /\ success' = [success EXCEPT ![r] = FALSE]
    /\ UNCHANGED <<loaderVars, pipelineVars>>

Init ==
    /\ store = [ep \in Endpoints |-> << >>]
    /\ req = [c \in Clients |-> NoReq]
    /\ nposts = 0
    /\ files = << >>
    /\ last_scraped_at = [s \in Sources |-> Never]
    /\ blobs = {}
    /\ now = 0
    /\ client_key \in {SecretKey, "wrongkey"}
    /\ pc = [r \in Runs |-> "idle"]
    /\ pending_files = [r \in Runs |-> << >>]
    /\ idx = [r \in Runs |-> 0]
    /\ outcomes = [r \in Runs |-> << >>]
    /\ waits = [r \in Runs |-> 0]
    /\ success = [r \in Runs |-> FALSE]
    /\ fetch_log = NoFetch

LoaderNext ==
    \/ \E c \in Clients : ClientPost(c)
    \/ \E c \in Clients : LoaderCheck(c)
    \/ \E c \in Clients : LoaderCommit(c)
    \/ \E c \in Clients : ClientDone(c)

LoaderSpec == Init /\ [][LoaderNext]_vars

Next ==
    \/ FetchHttpRun
    \/ FetchLocalRun
    \/ DeleteBlob
    \/ \E r \in SerialRuns : TSelect(r)
    \/ \E r \in SerialRuns : TClaim(r)
    \/ \E r \in SerialRuns : ProcessFileStart(r)
    \/ \E r \in SerialRuns : TPost(r)
    \/ \E r \in SerialRuns : LoaderCheck(r)
    \/ \E r \in SerialRuns : LoaderCommit(r)
    \/ \E r \in SerialRuns : TReceive(r)
    \/ \E r \in SerialRuns : TCommitFile(r)

\* Fetch and Transform as the cron starts them, one Transform at a time,
\* within one clock second
Spec == Init /\ [][Next]_vars

ConcNext ==
    \/ FetchHttpRun
    \/ \E r \in Runs : TSelect(r)
    \/ \E r \in Runs : TClaim(r)
    \/ \E r \in Runs : ProcessFileStart(r)
    \/ \E r \in Runs : TPost(r)
    \/ \E r \in Runs : LoaderCheck(r)
    \/ \E r \in Runs : LoaderCommit(r)
    \/ \E r \in Runs : TReceive(r)
    \/ \E r \in Runs : TCommitFile(r)

\* two Transform processes that overlap, fed by the HTTP source
ConcSpec == Init /\ [][ConcNext]_vars

ObsNext ==
    \/ FetchHttpLogged
    \/ FetchLocalLogged
    \/ \E r \in SerialRuns : TSelect(r)
    \/ \E r \in SerialRuns : TClaim(r)
    \/ \E r \in SerialRuns : ProcessFileStart(r)
    \/ \E r \in SerialRuns : TPost(r)
    \/ \E r \in SerialRuns : LoaderCheck(r)
    \/ \E r \in SerialRuns : LoaderCommit(r)
    \/ \E r \in SerialRuns : TReceive(r)
    \/ \E r \in SerialRuns : TCommitFile(r)

\* Spec with the inputs of the last Fetch kept, and no blob removed
ObsSpec == Init /\ [][ObsNext]_vars

FetchNext ==
    \/ FetchHttpRun
    \/ FetchLocalRun
    \/ Tick
    \/ DeleteBlob

\* the Fetch runs alone, while the clock advances
FetchSpec == Init /\ [][FetchNext]_vars

CrashNext ==
    \/ FetchHttpRun
    \/ \E r \in SerialRuns : TSelect(r)
    \/ \E r \in SerialRuns : TClaim(r)
    \/ \E r \in SerialRuns : ProcessFileStart(r)
    \/ \E r \in SerialRuns : TPost(r)
    \/ \E r \in SerialRuns : LoaderCheck(r)
    \/ \E r \in SerialRuns : LoaderCommit(r)
    \/ \E r \in SerialRuns : TReceive(r)
    \/ \E r \in SerialRuns : TCommitFile(r)
    \/ \E r \in SerialRuns : Crash(r)

\* Transform runs that may stop in the middle of a batch
CrashSpec == Init /\ [][CrashNext]_vars

StuckNext ==
    \/ FetchLocalLogged
    \/ \E r \in SerialRuns : TSelect(r)
    \/ \E r \in SerialRuns : TClaim(r)
    \/ \E r \in SerialRuns : ProcessFileStart(r)
    \/ \E r \in SerialRuns : TPost(r)
    \/ \E r \in SerialRuns : LoaderCheck(r)
    \/ \E r \in SerialRuns : LoaderCommit(r)
    \/ \E r \in SerialRuns : TReceive(r)
    \/ \E r \in SerialRuns : TCommitFile(r)
    \/ \E r \in SerialRuns : Crash(r)

\* sweeps of the local directory beside Transform runs that may stop in the
\* middle of a batch
StuckSpec == Init /\ [][StuckNext]_vars

\* ------------------------------------------ send_to_loader against any peer

\* send_to_loader(endpoint, payload) is called
DeliverCall(r) ==
    /\ pc[r] = "idle"
    /\ pc' = [pc EXCEPT ![r] = "send"]
    /\ UNCHANGED <<loaderVars, pipelineVars, pending_files, idx, outcomes, waits, success>>

\* one attempt: the peer answers with any status, or the transport fails
DeliverAttempt(r) ==
    /\ pc[r] = "send"
    /\ \E outcome \in StatusCodes \cup {NetErr} : Attempt(r, outcome)
    /\ UNCHANGED <<loaderVars, pipelineVars, pending_files, idx>>

\* the caller takes the return value
DeliverReturn(r) ==
    /\ pc[r] = "returned"
    /\ pc' = [pc EXCEPT ![r] = "idle"]
    /\ outcomes' = [outcomes EXCEPT ![r] = << >>]
    /\ waits' = [waits EXCEPT ![r] = 0]
    /\ success' = [success EXCEPT ![r] = FALSE]
    /\ UNCHANGED <<loaderVars, pipelineVars, pending_files, idx>>

DeliverNext ==
    \/ \E r \in SerialRuns : DeliverCall(r)
    \/ \E r \in SerialRuns : DeliverAttempt(r)
    \/ \E r \in SerialRuns : DeliverReturn(r)

DeliverSpec == Init /\ [][DeliverNext]_vars

\* ------------------------------------------------ Transform on a backlog

\* the store after BatchLimit + 1 successful fetches of the HTTP source that
\* no Transform has seen yet
BacklogInit ==
    /\ store = [ep \in Endpoints |-> << >>]
    /\ req = [c \in Clients |-> NoReq]
    /\ nposts = 0
    /\ files = [i \in 1..(BatchLimit + 1) |->
                  NewFile(HttpSource, <<HttpSource, 0, "rss">>, "rss", "text/html", NULL)]
    /\ last_scraped_at = [s \in Sources |-> IF s = HttpSource THEN 0 ELSE Never]
    /\ blobs = { <<HttpSource, 0, "rss">> }
    /\ now = 0
    /\ client_key \in {SecretKey, "wrongkey"}
    /\ pc = [r \in Runs |-> "idle"]
    /\ pending_files = [r \in Runs |-> << >>]
    /\ idx = [r \in Runs |-> 0]
    /\ outcomes = [r \in Runs |-> << >>]
    /\ waits = [r \in Runs |-> 0]
    /\ success = [r \in Runs |-> FALSE]
    /\ fetch_log = NoFetch

TransformNext ==
    \/ \E r \in SerialRuns : TSelect(r)
    \/ \E r \in SerialRuns : TClaim(r)
    \/ \E r \in SerialRuns : ProcessFileStart(r)
    \/ \E r \in SerialRuns : TPost(r)
    \/ \E r \in SerialRuns : LoaderCheck(r)
    \/ \E r \in SerialRuns : LoaderCommit(r)
    \/ \E r \in SerialRuns : TReceive(r)
    \/ \E r \in SerialRuns : TCommitFile(r)

\* the cron keeps starting Transform runs and every started run keeps going
BacklogSpec == BacklogInit /\ [][TransformNext]_vars /\ WF_vars(TransformNext)

\* the store after BatchLimit successful fetches of the HTTP source: a backlog
\* that one batch holds
RetryInit ==
    /\ store = [ep \in Endpoints |-> << >>]
    /\ req = [c \in Clients |-> NoReq]
    /\ nposts = 0
    /\ files = [i \in 1..BatchLimit |->
                  NewFile(HttpSource, <<HttpSource, 0, "rss">>, "rss", "text/html", NULL)]
    /\ last_scraped_at = [s \in Sources |-> IF s = HttpSource THEN 0 ELSE Never]
    /\ blobs = { <<HttpSource, 0, "rss">> }
    /\ now = 0
    /\ client_key \in {SecretKey, "wrongkey"}
    /\ pc = [r \in Runs |-> "idle"]
    /\ pending_files = [r \in Runs |-> << >>]
    /\ idx = [r \in Runs |-> 0]
    /\ outcomes = [r \in Runs |-> << >>]
    /\ waits = [r \in Runs |-> 0]
    /\ success = [r \in Runs |-> FALSE]
    /\ fetch_log = NoFetch

\* repeated Transform runs on a backlog within the batch limit
RetrySpec == RetryInit /\ [][TransformNext]_vars /\ WF_vars(TransformNext)

\* the store after BatchLimit fetches of the HTTP source that were answered
\* with any Content-Type
DispatchInit ==
    /\ store = [ep \in Endpoints |-> << >>]
    /\ req = [c \in Clients |-> NoReq]
    /\ nposts = 0
    /\ files \in [1..BatchLimit ->
                    { NewFile(HttpSource, <<HttpSource, 0, "rss">>, "rss", mt, NULL) :
                        mt \in MimeTypes }]
    /\ last_scraped_at = [s \in Sources |-> IF s = HttpSource THEN 0 ELSE Never]
    /\ blobs = { <<HttpSource, 0, "rss">> }
    /\ now = 0
    /\ client_key \in {SecretKey, "wrongkey"}
    /\ pc = [r \in Runs |-> "idle"]
    /\ pending_files = [r \in Runs |-> << >>]
    /\ idx = [r \in Runs |-> 0]
    /\ outcomes = [r \in Runs |-> << >>]
    /\ waits = [r \in Runs |-> 0]
    /\ success = [r \in Runs |-> FALSE]
    /\ fetch_log = NoFetch

\* repeated Transform runs on rows of every MIME type
DispatchSpec == DispatchInit /\ [][TransformNext]_vars

\* ================================================================ claims

RecordsOf(ep, id) == { i \in 1..Len(store[ep]) : store[ep][i].source_file_id = id }

RecordCount(id) ==
    Cardinality(RecordsOf("articles", id)) + Cardinality(RecordsOf("documents", id))
    + Cardinality(RecordsOf("spreadsheets", id)) + Cardinality(RecordsOf("images", id))

OnePerId == \A ep \in Endpoints : \A i, j \in 1..Len(store[ep]) :
                store[ep][i].source_file_id = store[ep][j].source_file_id => i = j

AnsweredOkIsStored ==
    \A c \in Clients :
        req[c].state = "answered" /\ req[c].resp.code = 201
            => Cardinality(RecordsOf(req[c].ep, req[c].item.source_file_id)) = 1

\* C1: Loader idempotency.  Whatever authenticated and other POSTs arrive, in
\* any interleaving, no table ever holds two records with one source_file_id,
\* every request answered 201 has exactly one record, a stored record never
\* changes, and a request with the right key whose source_file_id is stored
\* when the handler looks it up is answered "Already exists" with the store
\* left as it is.
LoaderIdempotent ==
    [][ /\ OnePerId'
        /\ AnsweredOkIsStored'
        /\ \A ep \in Endpoints : \A i \in 1..Len(store[ep]) :
              Len(store'[ep]) >= i /\ store'[ep][i] = store[ep][i]
        /\ \A c \in Clients :
              ( /\ req[c].state = "arrived"
                /\ req[c].key = SecretKey
                /\ RecordsOf(req[c].ep, req[c].item.source_file_id) # {}
                /\ req'[c] # req[c] )
              => /\ req'[c].state = "answered"
                 /\ req'[c].resp.msg = "Already exists"
                 /\ store' = store
      ]_vars

\* a second POST of a stored source_file_id, carrying other content, was
\* answered "Already exists"
DuplicatePostAnswered ==
    \E c \in Clients :
        /\ req[c].state = "answered"
        /\ req[c].resp.msg = "Already exists"
        /\ \E i \in RecordsOf(req[c].ep, req[c].item.source_file_id) :
              store[req[c].ep][i].body # req[c].item.body

\* run r has claimed row i and not yet committed its outcome
Claimed(r, i) ==
    /\ pc[r] \in {"file", "send", "await", "returned"}
    /\ \E k \in idx[r]..Len(pending_files[r]) : pending_files[r][k] = i

\* C2: claim exclusivity.  No ScrapedFile row is claimed by two Transform
\* runs at once.
ClaimExclusive ==
    \A i \in DOMAIN files : \A r1, r2 \in Runs :
        Claimed(r1, i) /\ Claimed(r2, i) => r1 = r2

\* C3: end-to-end exactly-once delivery.  No ScrapedFile id has more than one
\* stored record over all content tables, and every row that is
\* PROCESSED_SUCCESSFULLY has exactly one.
ExactlyOnceDelivery ==
    \A i \in DOMAIN files :
        /\ RecordCount(i) <= 1
        /\ files[i].status = "PROCESSED_SUCCESSFULLY" => RecordCount(i) = 1

\* one row is PROCESSED_SUCCESSFULLY with its record, and another row's record
\* is stored although every response of its delivery was lost (LOAD_FAILED)
DeliveredAndLostResponse ==
    \E i, j \in DOMAIN files :
        /\ files[i].status = "PROCESSED_SUCCESSFULLY" /\ RecordCount(i) = 1
        /\ files[j].status = "LOAD_FAILED" /\ RecordCount(j) = 1

Terminal(status) == status \in {"TRANSFORM_FAILED", "PROCESSED_SUCCESSFULLY"}

\* C4: terminal-state stability.  Once a row is TRANSFORM_FAILED or
\* PROCESSED_SUCCESSFULLY its status never changes again (so no batch claims
\* it).
TerminalStable ==
    [][ \A i \in DOMAIN files :
            Terminal(files[i].status) => files'[i].status = files[i].status ]_vars

\* C5: under repeated Transform runs every LOAD_FAILED row is eventually
\* selected and claimed again, however many eligible rows there are.
LoadFailedReselected ==
    \A i \in 1..(BatchLimit + 1) :
        (files[i].status = "LOAD_FAILED") ~> (files[i].status = "PROCESSING")

\* C6: dedup on local ingestion.  No step adds a row of the local source for
\* a filename that has a SCRAPED or PROCESSING row of that source.
LocalDedup ==
    [][ \A n \in LocalNames :
            LiveRows(LocalSource, n) # {}
            => ~ \E j \in (Len(files) + 1)..Len(files') :
                    /\ files'[j].source_id = LocalSource
                    /\ files'[j].filename = n ]_vars

\* a sweep has run to its commit past an entry that had a SCRAPED or PROCESSING
\* row, and the store holds one row for that entry, now PROCESSING
SweepSkippedLiveEntry ==
    /\ fetch_log.source = LocalSource
    /\ fetch_log.err = NULL
    /\ \E n \in fetch_log.live :
          /\ Cardinality({ i \in 1..Len(files) : files[i].source_id = LocalSource
                                                  /\ files[i].filename = n }) = 1
          /\ \E i \in LiveRows(LocalSource, n) : files[i].status = "PROCESSING"

\* C7: uniqueness invariant.  For each source and filename at most one row
\* is SCRAPED or PROCESSING.
UniqueLiveRow ==
    \A s \in Sources : \A i, j \in 1..Len(files) :
        ( /\ files[i].source_id = s /\ files[j].source_id = s
          /\ files[i].filename = files[j].filename
          /\ files[i].status \in {"SCRAPED", "PROCESSING"}
          /\ files[j].status \in {"SCRAPED", "PROCESSING"} )
        => i = j

AllNetErr(r) == \A k \in 1..Len(outcomes[r]) : outcomes[r][k] = NetErr

\* C8: delivery retry bound.  A send_to_loader call whose every attempt ended
\* in a transport error returns after exactly 3 attempts and exactly 2
\* sleeps, and the row is then committed LOAD_FAILED.
RetryBound ==
    [][ \A r \in Runs :
            pc[r] = "returned" /\ AllNetErr(r)
            => /\ Len(outcomes[r]) = 3
               /\ waits[r] = 2
               /\ pc'[r] # "returned" => files'[Current(r)].status = "LOAD_FAILED"
      ]_vars

Accepted(outcome) == outcome \in {200, 201, 409}

Accepted2xx(outcome) == (outcome >= 200 /\ outcome <= 299) \/ outcome = 409

\* C9 as stated: send_to_loader returns success iff some attempt among at
\* most 3 received a status in 200..299, or 409; every attempt before the
\* last one failed, and failure is returned only after the 3rd attempt.
DeliveryOutcome2xx ==
    \A r \in Runs :
        pc[r] = "returned" =>
            /\ Len(outcomes[r]) \in 1..3
            /\ success[r] <=> \E k \in 1..Len(outcomes[r]) : Accepted2xx(outcomes[r][k])
            /\ \A k \in 1..(Len(outcomes[r]) - 1) : ~Accepted2xx(outcomes[r][k])
            /\ ~success[r] => Len(outcomes[r]) = 3

\* C9 amended: send_to_loader returns success iff some attempt among at most
\* 3 received status 200, 201 or 409; any other status, 2xx or not, is a
\* failed attempt; no POST follows the first success, and failure is
\* returned only after the 3rd failed attempt.
DeliveryOutcome ==
    \A r \in Runs :
        /\ pc[r] = "returned" =>
            /\ Len(outcomes[r]) \in 1..3
            /\ success[r] <=> \E k \in 1..Len(outcomes[r]) : Accepted(outcomes[r][k])
            /\ \A k \in 1..(Len(outcomes[r]) - 1) : ~Accepted(outcomes[r][k])
            /\ ~success[r] => Len(outcomes[r]) = 3
        /\ pc[r] = "send" =>
            /\ Len(outcomes[r]) < 3
            /\ \A k \in 1..Len(outcomes[r]) : ~Accepted(outcomes[r][k])

\* a call returned failure although one of its attempts was answered 204
Failed204 ==
    \E r \in Runs :
        /\ pc[r] = "returned" /\ ~success[r]
        /\ \E k \in 1..Len(outcomes[r]) : outcomes[r][k] = 204

\* C10: HTTP miss.  The step of a Fetch whose GET was answered with a status
\* >= 400 creates no ScrapedFile row and writes no blob.
HttpMissCreatesNothing ==
    [][ fetch_log'.source = HttpSource /\ fetch_log'.status >= 400
        => Len(files') = Len(files) /\ blobs' = blobs ]_vars

\* the first Fetch of the HTTP source was answered 404: no row, no blob
MissOnEmptyStore ==
    /\ fetch_log.source = HttpSource
    /\ fetch_log.status = 404
    /\ files = << >>
    /\ blobs = {}

\* C11: unconditional last-run update.  After every completed Fetch sweep
\* of a source (an HTTP GET however it ended, or a sweep of an existing
\* directory, with or without an entry that failed) the source's last-run
\* timestamp is the time of that sweep.
LastRunAdvanced ==
    (\/ fetch_log.source = HttpSource
     \/ fetch_log.source = LocalSource /\ fetch_log.dirExists)
    => last_scraped_at[fetch_log.source] = now

\* run r takes the step of process_file_record that starts on its current row
StartsFile(r) ==
    /\ pc[r] = "file"
    /\ pc'[r] # pc[r] \/ idx'[r] # idx[r]
    /\ pc'[r] = "send" \/ files' # files

NotFound(i) ==
    /\ files[i].status = "TRANSFORM_FAILED"
    /\ files[i].notes = "File not found on disk"

\* C12: missing blob.  A claimed row whose blob is not on disk when it is
\* processed ends in TRANSFORM_FAILED with the note "File not found on disk",
\* no request is sent for it, and from then on the row stays as it is and no
\* later query returns it.
MissingBlobFails ==
    [][ \A r \in Runs :
          /\ (StartsFile(r) /\ files[Current(r)].local_path \notin blobs)
                => /\ files'[Current(r)].status = "TRANSFORM_FAILED"
                   /\ files'[Current(r)].notes = "File not found on disk"
                   /\ req' = req
                   /\ store' = store
                   /\ pc'[r] \in {"file", "idle"}
          /\ \A i \in DOMAIN files :
                NotFound(i)
                => /\ files'[i] = files[i]
                   /\ (pc[r] = "idle" /\ pc'[r] = "selected")
                         => ~ \E k \in DOMAIN pending_files'[r] : pending_files'[r][k] = i
      ]_vars

\* a row failed for its missing blob, nothing was stored for it, and a later
\* query has returned a batch without it
MissingBlobSkipped ==
    \E i \in DOMAIN files : \E r \in Runs :
        /\ NotFound(i)
        /\ RecordCount(i) = 0
        /\ pc[r] = "selected"
        /\ ~ \E k \in DOMAIN pending_files[r] : pending_files[r][k] = i

\* C13: the delivery result drives the status.  When send_to_loader returns
\* for a claimed row, success (a 200, 201 or 409 answer, "Already exists"
\* among them) commits PROCESSED_SUCCESSFULLY with notes null, failure commits
\* LOAD_FAILED with a non-empty note; a LOAD_FAILED row passes the filter of
\* the next query, which returns it when the eligible rows fit the batch.
DeliveryDrivesStatus ==
    [][ \A r \in Runs :
          /\ (pc[r] = "returned" /\ pc'[r] # "returned")
                => LET f == Current(r)
                       last == outcomes[r][Len(outcomes[r])]
                   IN  /\ success[r] => /\ files'[f].status = "PROCESSED_SUCCESSFULLY"
                                        /\ files'[f].notes = NULL
                       /\ ~success[r] => /\ files'[f].status = "LOAD_FAILED"
                                         /\ files'[f].notes \notin {NULL, ""}
                       /\ last \in {200, 201, 409}
                             => files'[f].status = "PROCESSED_SUCCESSFULLY"
                       /\ last \notin {200, 201, 409}
                             => files'[f].status = "LOAD_FAILED"
          /\ (pc[r] = "idle" /\ pc'[r] = "selected")
                => \A i \in DOMAIN files :
                      ( /\ files[i].status = "LOAD_FAILED"
                        /\ Cardinality({ j \in DOMAIN files :
                              files[j].status \in {"SCRAPED", "LOAD_FAILED"} }) <= BatchLimit )
                      => \E k \in DOMAIN pending_files'[r] : pending_files'[r][k] = i
      ]_vars

\* a local row, ingested with its signature as note, is PROCESSED_SUCCESSFULLY
\* with notes null, beside a row that is LOAD_FAILED with its note
DeliveredAndFailedRows ==
    \E i, j \in DOMAIN files :
        /\ files[i].source_id = LocalSource
        /\ files[i].status = "PROCESSED_SUCCESSFULLY"
        /\ files[i].notes = NULL
        /\ files[j].status = "LOAD_FAILED"
        /\ files[j].notes = "API unreachable or returned error"

UnsupportedNote == "Unsupported mimetype: application/octet-stream"

\* C14: extraction failure.  When the extraction of a claimed row whose blob
\* exists raises (the library fails, or the MIME type is none the dispatch
\* knows), the row ends in TRANSFORM_FAILED with the exception text as note,
\* and no request is sent for it.
ExtractionFailureFails ==
    [][ \A r \in Runs :
          (StartsFile(r) /\ files[Current(r)].local_path \in blobs)
          => LET f == Current(r)
             IN  /\ files[f].mimetype = "application/octet-stream"
                      => /\ pc'[r] # "send"
                         /\ files'[f].notes = UnsupportedNote
                 /\ pc'[r] # "send"
                      => /\ files'[f].status = "TRANSFORM_FAILED"
                         /\ files'[f].notes \in {"extraction error", UnsupportedNote}
                         /\ req' = req
                         /\ store' = store
      ]_vars

\* a row of unknown type and a row whose extraction raised, both failed with
\* the exception text, nothing stored for either
BothExtractionFailures ==
    \E i, j \in DOMAIN files :
        /\ files[i].status = "TRANSFORM_FAILED" /\ files[i].notes = UnsupportedNote
        /\ files[j].status = "TRANSFORM_FAILED" /\ files[j].notes = "extraction error"
        /\ RecordCount(i) = 0 /\ RecordCount(j) = 0

\* run r stops in the middle of its batch: it leaves the batch with nothing
\* committed by the step
Crashes(r) ==
    /\ pc[r] \in {"file", "send", "await", "returned"}
    /\ pc'[r] = "idle"
    /\ files' = files

\* C15: crash containment.  When a Transform run stops while it processes
\* one of its claimed rows, the only row of its batch left in PROCESSING is
\* the one in flight: the rows before it have their committed outcome and no
\* other row of the batch is PROCESSING.
CrashLeavesOneInFlight ==
    [][ \A r \in Runs :
          Crashes(r)
          => \A k \in DOMAIN pending_files[r] :
                /\ k # idx[r] => files'[pending_files[r][k]].status # "PROCESSING"
                /\ k < idx[r] => files'[pending_files[r][k]].status \in
                       {"TRANSFORM_FAILED", "PROCESSED_SUCCESSFULLY", "LOAD_FAILED"}
      ]_vars

\* C16: sweep resilience.  After a sweep of the local directory in which one
\* entry raised an I/O error, every other entry of the directory has a
\* ScrapedFile row (it was ingested, or it had a row that made the sweep skip
\* it).
SweepSurvivesEntryError ==
    ( /\ fetch_log.source = LocalSource
      /\ fetch_log.dirExists
      /\ fetch_log.err # NULL )
    => \A n \in fetch_log.dir \ {fetch_log.err} :
          \E i \in DOMAIN files : /\ files[i].source_id = LocalSource
                                  /\ files[i].filename = n

\* run r commits a failure as the outcome of its current row
FailsFile(r) ==
    /\ pc[r] \in {"file", "returned"}
    /\ files[Current(r)].status = "PROCESSING"
    /\ files'[Current(r)].status \in {"TRANSFORM_FAILED", "LOAD_FAILED"}

\* C17: batch isolation of failures.  A failure on one claimed row (its
\* extraction raises, or its delivery fails) is committed as that row's status
\* and note, changes no other row, and the run goes on with the next row of
\* the batch; every claimed row leaves PROCESSING, and a run that has
\* returned leaves no row in PROCESSING.
BatchIsolation ==
    /\ [][ \A r \in Runs :
             FailsFile(r)
             => /\ files'[Current(r)].notes \notin {NULL, ""}
                /\ \A i \in DOMAIN files : i # Current(r) => files'[i] = files[i]
                /\ IF idx[r] < Len(pending_files[r])
                     THEN /\ pc'[r] = "file"
                          /\ idx'[r] = idx[r] + 1
                          /\ pending_files'[r] = pending_files[r]
                     ELSE pc'[r] = "idle"
         ]_vars
    /\ [](\A r \in SerialRuns :
             pc[r] = "idle" => \A i \in DOMAIN files : files[i].status # "PROCESSING")
    /\ \A i \in 1..(BatchLimit + 1) :
          (files[i].status = "PROCESSING") ~> (files[i].status # "PROCESSING")

\* the first row of a batch failed and the run is delivering the second
SecondFileAfterFailure ==
    \E r \in Runs :
        /\ pc[r] = "await"
        /\ idx[r] = 2
        /\ files[pending_files[r][1]].status \in {"TRANSFORM_FAILED", "LOAD_FAILED"}
        /\ files[pending_files[r][2]].status = "PROCESSING"

\* C18: Loader authentication.  A request to a content endpoint whose
\* X-API-Key is missing or is not the shared secret is answered with an
\* authentication failure (401 or 403), and handling it inserts or changes
\* no record.
UnauthenticatedRejected ==
    /\ [](\A c \in Clients :
             (req[c].state = "answered" /\ req[c].key # SecretKey)
             => req[c].resp.code \in {401, 403})
    /\ [][ \A c \in Clients :
             (req[c].state # "none" /\ req[c].key # SecretKey /\ req'[c] # req[c])
             => store' = store ]_vars

\* What the Loader does with such a request: it is refused before the handler
\* body runs, with 403 for a wrong key and with 422 for a missing header, and
\* no store step is taken for it.
UnauthenticatedStoresNothing ==
    /\ [](\A c \in Clients :
             (req[c].state = "answered" /\ req[c].key # SecretKey)
             => req[c].resp.code \in {403, 422})
    /\ [](\A c \in Clients : req[c].state = "checked" => req[c].key = SecretKey)
    /\ [][ \A c \in Clients :
             (req[c].state # "none" /\ req[c].key # SecretKey /\ req'[c] # req[c])
             => store' = store ]_vars

LoaderError(outcome) == outcome = 403 \/ (outcome >= 500 /\ outcome <= 599)

BlobPathsDistinct ==
    \A i, j \in DOMAIN files :
        files[i].local_path = files[j].local_path => i = j

\* C21: ScrapedFile rows are never deleted.  Over every step of Fetch and
\* Transform the set of ids only grows, every row keeps its source, its
\* filename, its path and its MIME type; so a row that is LOAD_FAILED or
\* TRANSFORM_FAILED stays in the table.
RowsNeverDeleted ==
    [][ /\ Len(files') >= Len(files)
        /\ \A i \in DOMAIN files :
              /\ i \in DOMAIN files'
              /\ files'[i].source_id = files[i].source_id
              /\ files'[i].filename = files[i].filename
              /\ files'[i].local_path = files[i].local_path
              /\ files'[i].mimetype = files[i].mimetype
      ]_vars

\* a row that failed in delivery and a row that failed in extraction are both
\* in the table while a later batch run has selected the first of them again
FailedRowsKept ==
    \E i, j \in DOMAIN files : \E r \in Runs :
        /\ files[i].status = "LOAD_FAILED"
        /\ files[j].status = "TRANSFORM_FAILED"
        /\ pc[r] = "selected"
        /\ pending_files[r] = <<i>>

Working(r) == pc[r] \in {"file", "send", "await", "returned"}

\* C22: claim precedes work.  The step that leaves the selection of a batch
\* commits PROCESSING on every row of the batch and touches neither the Loader
\* nor a request; extraction and delivery start only from a run that has
\* taken that step; and while a run works, every row of its batch that it has
\* not finished is PROCESSING.
ClaimPrecedesWork ==
    /\ [][ \A r \in SerialRuns :
             (pc[r] = "selected" /\ pc'[r] # "selected")
             => /\ pc'[r] = "file" /\ idx'[r] = 1
                /\ \A k \in DOMAIN pending_files[r] :
                      files'[pending_files[r][k]].status = "PROCESSING"
                /\ store' = store /\ req' = req
         ]_vars
    /\ [][ \A r \in SerialRuns :
             (StartsFile(r) \/ (pc'[r] \in {"send", "await", "returned"} /\ pc'[r] # pc[r]))
             => Working(r)
         ]_vars
    /\ [] \A r \in SerialRuns :
             /\ Working(r)
                => \A k \in idx[r]..Len(pending_files[r]) :
                      files[pending_files[r][k]].status = "PROCESSING"
             /\ ~ Working(r) => req[r].state = NoReq.state

\* a run has committed the claim of a batch of two rows and has extracted and
\* sent nothing yet
BatchClaimedBeforeWork ==
    \E r \in SerialRuns :
        /\ pc[r] = "file" /\ idx[r] = 1
        /\ Len(pending_files[r]) = 2
        /\ \A k \in 1..2 : files[pending_files[r][k]].status = "PROCESSING"
        /\ \A ep \in Endpoints : store[ep] = << >>

\* C23: batch selection.  A run selects only rows that are SCRAPED or
\* LOAD_FAILED when it selects, at most BatchLimit of them and none twice,
\* and the selection writes nothing; the claim changes the status of the
\* selected rows to PROCESSING and nothing else, and leaves every other row
\* as it was.
BatchSelection ==
    /\ [][ \A r \in SerialRuns :
             (pc[r] = "idle" /\ pc'[r] = "selected")
             => /\ Len(pending_files'[r]) >= 1
                /\ Len(pending_files'[r]) <= BatchLimit
                /\ \A k \in DOMAIN pending_files'[r] :
                      /\ pending_files'[r][k] \in DOMAIN files
                      /\ files[pending_files'[r][k]].status \in {"SCRAPED", "LOAD_FAILED"}
                /\ \A k, l \in DOMAIN pending_files'[r] :
                      pending_files'[r][k] = pending_files'[r][l] => k = l
                /\ files' = files
         ]_vars
    /\ [][ \A r \in SerialRuns :
             (pc[r] = "selected" /\ pc'[r] = "file")
             => /\ pending_files'[r] = pending_files[r]
                /\ DOMAIN files' = DOMAIN files
                /\ \A i \in DOMAIN files :
                      IF \E k \in DOMAIN pending_files[r] : pending_files[r][k] = i
                        THEN /\ files[i].status \in {"SCRAPED", "LOAD_FAILED"}
                             /\ files'[i] = [files[i] EXCEPT !.status = "PROCESSING"]
                        ELSE files'[i] = files[i]
         ]_vars

\* a run has claimed a full batch of a backlog that held more eligible rows
\* than the limit: the row outside the batch is still LOAD_FAILED
FullBatchOfLargerBacklog ==
    \E r \in SerialRuns :
        /\ pc[r] = "file" /\ idx[r] = 1
        /\ Len(pending_files[r]) = BatchLimit
        /\ \E i \in DOMAIN files :
              /\ ~ \E k \in DOMAIN pending_files[r] : pending_files[r][k] = i
              /\ files[i].status = "LOAD_FAILED"

\* a step of Fetch on the HTTP source: it leaves the Transform run and the
\* Loader alone
HttpFetchStep ==
    /\ fetch_log'.source = HttpSource
    /\ runVars' = runVars
    /\ loaderVars' = loaderVars

\* C24: successful HTTP fetch.  A fetch step whose GET was answered with a
\* status below 400 adds exactly one row, of the HTTP source and SCRAPED, and
\* sets the last-run timestamp of the source in the same step; no other step
\* adds a row of the HTTP source or moves its timestamp; and in every state
\* the HTTP source has a row exactly when its timestamp is set.
HttpFetchAtomic ==
    /\ [][ (HttpFetchStep /\ fetch_log'.status > 0 /\ fetch_log'.status < 400)
           => /\ Len(files') = Len(files) + 1
              /\ \A i \in DOMAIN files : files'[i] = files[i]
              /\ files'[Len(files')].source_id = HttpSource
              /\ files'[Len(files')].status = "SCRAPED"
              /\ last_scraped_at'[HttpSource] = now
         ]_vars
    /\ [][ ( \/ last_scraped_at'[HttpSource] # last_scraped_at[HttpSource]
             \/ \E j \in (Len(files) + 1)..Len(files') : files'[j].source_id = HttpSource )
           => /\ HttpFetchStep /\ fetch_log'.status > 0 /\ fetch_log'.status < 400
              /\ Len(files') = Len(files) + 1
              /\ files'[Len(files')].source_id = HttpSource
              /\ last_scraped_at'[HttpSource] = now
         ]_vars
    /\ [] ( (\E i \in DOMAIN files : files[i].source_id = HttpSource)
            <=> last_scraped_at[HttpSource] # Never )

\* a GET answered 204 has put the first row of the HTTP source into the
\* table together with the timestamp
FetchedOn204 ==
    /\ fetch_log.source = HttpSource
    /\ fetch_log.status = 204
    /\ Len(files) = 1
    /\ files[1].source_id = HttpSource
    /\ files[1].status = "SCRAPED"
    /\ last_scraped_at[HttpSource] = now

\* the endpoint the dispatch table gives each MIME type of MimeTypes, written
\* out by hand; "" where no branch matches
EndpointOf(mime) ==
    CASE mime \in {"text/html", "TEXT/HTML", "application/xhtml+xml",
                   "application/pdf+html"} -> "articles"
      [] mime \in {"application/pdf", "text/pdf", "text/plain", "text/csv",
                   "application/vnd.openxmlformats-officedocument.wordprocessingml.document"}
           -> "documents"
      [] mime \in {"application/vnd.openxmlformats-officedocument.spreadsheetml.sheet",
                   "application/vnd.ms-excel", "image/vnd.ms-excel"} -> "spreadsheets"
      [] mime = "image/png" -> "images"
      [] OTHER -> ""

\* C25: MIME dispatch.  Every request of a row goes to the endpoint that the
\* ordered table html, pdf/wordprocessing, spreadsheet/excel, image, text gives
\* its MIME type; a row whose type matches no branch sends nothing and becomes
\* TRANSFORM_FAILED; the MIME type of a row never changes, so every retry
\* sends to the same endpoint, and every stored record lies in the table of
\* its row's endpoint.
MimeDispatchTable ==
    /\ [][ \A r \in SerialRuns :
             /\ (req'[r].state = "arrived" /\ req[r].state # "arrived")
                => /\ req'[r].ep = EndpointOf(files[Current(r)].mimetype)
                   /\ req'[r].item.source_file_id = Current(r)
             /\ (StartsFile(r) /\ EndpointOf(files[Current(r)].mimetype) = "")
                => /\ files'[Current(r)].status = "TRANSFORM_FAILED"
                   /\ req' = req
         ]_vars
    /\ [][ \A i \in DOMAIN files : files'[i].mimetype = files[i].mimetype ]_vars
    /\ [] \A ep \in Endpoints : \A k \in DOMAIN store[ep] :
             ep = EndpointOf(files[store[ep][k].source_file_id].mimetype)

\* a row of type text/html that failed in delivery before is sent to
\* /articles again, after a row of type text/pdf was stored as a document
RetriedToSameEndpoint ==
    \E r \in SerialRuns :
        /\ pc[r] = "await"
        /\ files[Current(r)].mimetype = "text/html"
        /\ files[Current(r)].notes = "API unreachable or returned error"
        /\ req[r].ep = "articles"
        /\ \E k \in DOMAIN store["documents"] :
              files[store["documents"][k].source_file_id].mimetype = "text/pdf"

\* C26: sequential processing.  A run has at most one file in extraction or
\* delivery: its one request, if any, carries the file at its position in the
\* batch, every file before that position has its terminal status committed,
\* every file after it is untouched in PROCESSING, and the processing of a
\* file starts only when the file before it has left PROCESSING.
SequentialProcessing ==
    /\ [] \A r \in SerialRuns :
            /\ Working(r)
               => /\ idx[r] \in DOMAIN pending_files[r]
                  /\ \A k \in 1..(idx[r] - 1) :
                        files[pending_files[r][k]].status
                          \in {"PROCESSED_SUCCESSFULLY", "LOAD_FAILED", "TRANSFORM_FAILED"}
                  /\ \A k \in idx[r]..Len(pending_files[r]) :
                        files[pending_files[r][k]].status = "PROCESSING"
            /\ req[r].state # "none"
               => /\ pc[r] = "await"
                  /\ req[r].item.source_file_id = Current(r)
    /\ [][ \A r \in SerialRuns :
             (StartsFile(r) /\ idx[r] > 1)
             => files[pending_files[r][idx[r] - 1]].status # "PROCESSING"
         ]_vars
    /\ [][ \A r \in SerialRuns :
             (Working(r) /\ Working(r)' /\ idx'[r] # idx[r])
             => /\ idx'[r] = idx[r] + 1
                /\ files'[pending_files[r][idx[r]]].status
                     \in {"PROCESSED_SUCCESSFULLY", "LOAD_FAILED", "TRANSFORM_FAILED"}
         ]_vars

\* the second file of a batch is in delivery, the first is delivered and
\* committed
SecondFileInDelivery ==
    \E r \in SerialRuns :
        /\ pc[r] = "await"
        /\ idx[r] = 2
        /\ req[r].item.source_file_id = pending_files[r][2]
        /\ files[pending_files[r][1]].status = "PROCESSED_SUCCESSFULLY"
        /\ files[pending_files[r][2]].status = "PROCESSING"

\* a step of Fetch on the local source
LocalSweepStep ==
    /\ fetch_log'.source = LocalSource
    /\ runVars' = runVars
    /\ loaderVars' = loaderVars

NewRowsOf(n) ==
    { j \in (Len(files) + 1)..Len(files') :
        files'[j].source_id = LocalSource /\ files'[j].filename = n }

\* C27: re-ingestion policy.  A sweep of the local directory that runs to
\* its commit adds, for every file of the directory that has no SCRAPED or
\* PROCESSING row of the source, exactly one row with a new id, status
\* SCRAPED and the size+mtime signature as its note, whatever rows of other
\* statuses the filename has; it adds no row for any other name and changes no
\* row that was there.
ReingestionPolicy ==
    [][ (LocalSweepStep /\ fetch_log'.dirExists /\ fetch_log'.err = NULL)
        => /\ \A n \in fetch_log'.dir :
                IF LiveRows(LocalSource, n) # {}
                  THEN NewRowsOf(n) = {}
                  ELSE /\ Cardinality(NewRowsOf(n)) = 1
                       /\ \A j \in NewRowsOf(n) :
                             /\ files'[j].status = "SCRAPED"
                             /\ files'[j].notes = "size_mtime_of_" \o n
                             /\ files'[j].local_path = <<LocalSource, now, n>>
           /\ \A n \in LocalNames \ fetch_log'.dir : NewRowsOf(n) = {}
           /\ \A j \in (Len(files) + 1)..Len(files') : files'[j].source_id = LocalSource
           /\ \A i \in DOMAIN files : files'[i] = files[i]
      ]_vars

\* after a sweep a file has two rows: the delivered one of an earlier sweep
\* and a new SCRAPED one with the same signature of the unchanged file
DeliveredFileIngestedAgain ==
    /\ fetch_log.source = LocalSource
    /\ fetch_log.err = NULL
    /\ \E i, j \in DOMAIN files :
          /\ i < j
          /\ files[i].source_id = LocalSource /\ files[j].source_id = LocalSource
          /\ files[i].filename = files[j].filename
          /\ files[i].filename \in fetch_log.dir
          /\ files[i].status = "PROCESSED_SUCCESSFULLY"
          /\ files[j].status = "SCRAPED"
          /\ files[j].notes = "size_mtime_of_" \o files[j].filename

NetErrCount(s) == Cardinality({ k \in DOMAIN s : s[k] = NetErr })

\* C28: backoff placement.  Within one call of send_to_loader an attempt is
\* followed by a backoff wait exactly when it ended in a transport error: an
\* attempt that was answered, with whatever status, adds no wait, and the
\* number of waits of the call is the number of its transport errors.
BackoffPlacement ==
    /\ [][ \A r \in SerialRuns :
             Len(outcomes'[r]) = Len(outcomes[r]) + 1
             => LET outcome == outcomes'[r][Len(outcomes'[r])]
                IN  /\ outcome = NetErr => waits'[r] = waits[r] + 1
                    /\ outcome # NetErr => waits'[r] = waits[r]
         ]_vars
    /\ [][ \A r \in SerialRuns :
             waits'[r] > waits[r] => Len(outcomes'[r]) = Len(outcomes[r]) + 1
         ]_vars
    /\ [] \A r \in SerialRuns : waits[r] = NetErrCount(outcomes[r])

\* a call ended after an attempt answered 500, a transport error and an
\* attempt answered 403, with the one wait after the transport error
WaitAfterTransportErrorOnly ==
    \E r \in SerialRuns :
        /\ pc[r] = "returned"
        /\ outcomes[r] = <<500, NetErr, 403>>
        /\ waits[r] = 1
        /\ ~success[r]

LegalChange(from, to) ==
    \/ from \in {"SCRAPED", "LOAD_FAILED"} /\ to = "PROCESSING"
    \/ from = "PROCESSING"
         /\ to \in {"PROCESSED_SUCCESSFULLY", "LOAD_FAILED", "TRANSFORM_FAILED"}

\* C29: legal status transitions.  Every status is one of SCRAPED,
\* PROCESSING, PROCESSED_SUCCESSFULLY, LOAD_FAILED, TRANSFORM_FAILED, a new
\* row starts as SCRAPED, and every step that changes the status of a row
\* takes it from SCRAPED or LOAD_FAILED to PROCESSING or from PROCESSING to
\* PROCESSED_SUCCESSFULLY, LOAD_FAILED or TRANSFORM_FAILED, also when two
\* Transform batch runs interleave.
LegalTransitions ==
    /\ [] \A i \in DOMAIN files :
            files[i].status \in {"SCRAPED", "PROCESSING", "PROCESSED_SUCCESSFULLY",
                                 "LOAD_FAILED", "TRANSFORM_FAILED"}
    /\ [][ \A i \in DOMAIN files' :
             IF i \in DOMAIN files
               THEN files'[i].status # files[i].status
                      => LegalChange(files[i].status, files'[i].status)
               ELSE files'[i].status = "SCRAPED"
         ]_vars

\* row i is in PROCESSING and no run holds it: the run that claimed it has
\* stopped
Stuck(i) ==
    /\ files[i].status = "PROCESSING"
    /\ \A r \in SerialRuns : \A k \in DOMAIN pending_files[r] :
          pending_files[r][k] # i

\* C30: stuck PROCESSING rows.  A row that a stopped Transform run left in
\* PROCESSING is in no batch that a later run selects, no step changes it, and
\* no sweep of the local directory adds a row for its source and filename.
StuckRowsStay ==
    [][ \A i \in DOMAIN files :
          Stuck(i)
          => /\ files'[i] = files[i]
             /\ \A r \in SerialRuns : \A k \in DOMAIN pending_files'[r] :
                   pending_files'[r][k] # i
             /\ \A j \in (Len(files) + 1)..Len(files') :
                   ~ ( /\ files'[j].source_id = files[i].source_id
                       /\ files'[j].filename = files[i].filename )
      ]_vars

\* a run stopped and left a row of a local file in PROCESSING; a sweep that
\* listed the file since has added no second row for it, and a later run
\* has selected another row
StuckRowSkipped ==
    \E i \in DOMAIN files : \E r \in SerialRuns :
        /\ files[i].status = "PROCESSING"
        /\ files[i].source_id = LocalSource
        /\ pc[r] = "selected"
        /\ \A k \in DOMAIN pending_files[r] : pending_files[r][k] # i
        /\ fetch_log.dirExists /\ fetch_log.err = NULL
        /\ files[i].filename \in fetch_log.live
        /\ Cardinality({ j \in DOMAIN files : files[j].filename = files[i].filename }) = 1

\* C31: normal completion leaves nothing in flight.  The step with which a
\* Transform run ends its batch leaves every row of the batch
\* PROCESSED_SUCCESSFULLY, LOAD_FAILED or TRANSFORM_FAILED, and while no run
\* is under way no row is PROCESSING.
CompletionLeavesNothing ==
    /\ [][ \A r \in SerialRuns :
             (Working(r) /\ pc'[r] = "idle")
             => \A k \in DOMAIN pending_files[r] :
                   files'[pending_files[r][k]].status
                     \in {"PROCESSED_SUCCESSFULLY", "LOAD_FAILED", "TRANSFORM_FAILED"}
         ]_vars
    /\ [] ( (\A r \in SerialRuns : pc[r] = "idle")
            => \A i \in DOMAIN files : files[i].status # "PROCESSING" )

\* a run over a batch of two has ended: one row failed in delivery, the
\* other in extraction
RunEndedWithFailures ==
    /\ \A r \in SerialRuns : pc[r] = "idle"
    /\ Len(files) = 2
    /\ files[1].status = "LOAD_FAILED"
    /\ files[2].status = "TRANSFORM_FAILED"
    /\ files[2].notes = "extraction error"

\* requests c and d carry one source_file_id to one endpoint
SameTarget(c, d) ==
    /\ c # d
    /\ req[c].state # "none" /\ req[d].state # "none"
    /\ req[c].ep = req[d].ep
    /\ req[c].item.source_file_id = req[d].item.source_file_id

\* request c has passed the existence check and has been answered from the
\* commit
AnsweredFromCommit(c) ==
    /\ req[c].state = "answered"
    /\ req[c].resp.msg \in {"success", "Database error"}

\* C32: concurrent duplicate POSTs.  When two requests with one
\* source_file_id for one endpoint have both passed the existence check, the
\* commit of the one that comes second is answered 500 and leaves the store
\* as it is; the first commit that the store accepts adds exactly one record;
\* and when both are answered at most one was a success, and the table holds
\* at most one record for the id, exactly one if one of them was a success.
ConcurrentDuplicatePosts ==
    /\ [][ \A c, d \in Clients :
             ( /\ SameTarget(c, d)
               /\ req[c].state = "checked"
               /\ req[d].state = "checked" \/ AnsweredFromCommit(d)
               /\ req'[c] # req[c] )
             => LET ep == req[c].ep
                    id == req[c].item.source_file_id
                IN  /\ req'[c].state = "answered"
                    /\ IF RecordsOf(ep, id) # {}
                         THEN /\ req'[c].resp.code = 500
                              /\ store' = store
                       ELSE IF req'[c].resp.code = 201
                         THEN /\ store' = [store EXCEPT ![ep] = Append(@, req[c].item)]
                              /\ req'[c].resp.msg = "success"
                       ELSE /\ req'[c].resp.code = 500
                            /\ store' = store
         ]_vars
    /\ [] \A c, d \in Clients :
            (SameTarget(c, d) /\ AnsweredFromCommit(c) /\ AnsweredFromCommit(d))
            => /\ ~ (req[c].resp.code = 201 /\ req[d].resp.code = 201)
               /\ Cardinality(RecordsOf(req[c].ep, req[c].item.source_file_id)) <= 1
               /\ req[c].resp.code = 201
                    => Cardinality(RecordsOf(req[c].ep, req[c].item.source_file_id)) = 1

\* two requests for one id passed the check together; one was stored and
\* answered 201, the other was answered 500, and the table holds the record of
\* the first only
RaceLostWith500 ==
    \E c, d \in Clients :
        /\ SameTarget(c, d)
        /\ AnsweredFromCommit(c) /\ req[c].resp.code = 201
        /\ AnsweredFromCommit(d) /\ req[d].resp.code = 500
        /\ req[c].item.body # req[d].item.body
        /\ \A i \in RecordsOf(req[c].ep, req[c].item.source_file_id) :
              store[req[c].ep][i] = req[c].item
        /\ Cardinality(RecordsOf(req[c].ep, req[c].item.source_file_id)) = 1

TablesOf(id) == { ep \in Endpoints : RecordsOf(ep, id) # {} }

\* C33: one record per file across kinds.  Over all Transform runs and
\* retries no source_file_id has records in two of the four content tables;
\* a request for an id that has a record goes to the table that holds it; and
\* no record ever leaves its table.
OneTablePerFile ==
    /\ [] \A i \in DOMAIN files : Cardinality(TablesOf(i)) <= 1
    /\ [][ \A r \in SerialRuns :
             (req'[r].state = "arrived" /\ req[r].state # "arrived")
             => \A ep \in TablesOf(req'[r].item.source_file_id) : req'[r].ep = ep
         ]_vars
    /\ [][ \A i \in DOMAIN files : TablesOf(i) \subseteq TablesOf(i)' ]_vars

\* the retry of an image whose first delivery was stored and then reported
\* as failed finds its record in /images
RetryFoundItsRecord ==
    \E r \in SerialRuns :
        /\ pc[r] = "await"
        /\ req[r].state = "answered"
        /\ req[r].resp.msg = "Already exists"
        /\ req[r].ep = "images"
        /\ files[Current(r)].mimetype = "image/png"
        /\ files[Current(r)].notes = "API unreachable or returned error"
        /\ TablesOf(Current(r)) = {"images"}

\* the entries a sweep copied before its error: those it handled that had no
\* SCRAPED or PROCESSING row
CopiedBeforeError ==
    { n \in fetch_log'.handled : LiveRows(LocalSource, n) = {} }

\* C34: the local sweep is all-or-nothing in the metadata store.  A sweep
\* that an error interrupts adds and changes no ScrapedFile row and leaves
\* the last-run timestamps as they were; the blobs it copied before the error
\* are on disk, and no row refers to such a blob unless a row had that very
\* path before the sweep.
SweepAllOrNothing ==
    [][ (LocalSweepStep /\ fetch_log'.dirExists /\ fetch_log'.err # NULL)
        => /\ files' = files
           /\ last_scraped_at' = last_scraped_at
           /\ blobs' = blobs \cup { <<LocalSource, now, n>> : n \in CopiedBeforeError }
           /\ \A n \in CopiedBeforeError :
                 \A i \in DOMAIN files' :
                    files'[i].local_path = <<LocalSource, now, n>>
                    => /\ i \in DOMAIN files
                       /\ files[i].local_path = <<LocalSource, now, n>>
      ]_vars

\* a sweep copied one file and failed on the next: the blob is on disk, the
\* table has no row at all and the source has no last-run timestamp
OrphanBlobAfterError ==
    /\ fetch_log.source = LocalSource
    /\ fetch_log.err # NULL
    /\ fetch_log.handled # {}
    /\ \A n \in fetch_log.handled : <<LocalSource, now, n>> \in blobs
    /\ files = << >>
    /\ last_scraped_at[LocalSource] = Never

\* C35: stored records come only from claimed rows.  Every record of the
\* content store carries the id of a ScrapedFile row whose status is not
\* SCRAPED, and a record is added only for a row that a run holds claimed in
\* PROCESSING.
RecordsOnlyOfClaimedRows ==
    /\ [] \A ep \in Endpoints : \A k \in DOMAIN store[ep] :
            /\ store[ep][k].source_file_id \in DOMAIN files
            /\ files[store[ep][k].source_file_id].status # "SCRAPED"
    /\ [][ \A ep \in Endpoints :
             \A k \in (Len(store[ep]) + 1)..Len(store'[ep]) :
                LET id == store'[ep][k].source_file_id
                IN  /\ id \in DOMAIN files
                    /\ files[id].status = "PROCESSING"
                    /\ \E r \in SerialRuns : Claimed(r, id) /\ Current(r) = id
         ]_vars

\* the record of a row is stored while the row is still PROCESSING and its
\* response is under way; another row is SCRAPED and has no record
RecordWhileProcessing ==
    \E r \in SerialRuns : \E j \in DOMAIN files :
        /\ pc[r] = "await"
        /\ req[r].state = "answered"
        /\ req[r].resp.msg = "success"
        /\ files[Current(r)].status = "PROCESSING"
        /\ RecordCount(Current(r)) = 1
        /\ files[j].status = "SCRAPED"
        /\ RecordCount(j) = 0

EligibleByStatus == { i \in DOMAIN files : files[i].status \in {"SCRAPED", "LOAD_FAILED"} }

\* C36: the retry counter is inert.  retry_count is 0 on every row in every
\* state, no step changes it, however often a row goes from LOAD_FAILED to
\* PROCESSING and back, and a selection takes as many of the rows that are
\* SCRAPED or LOAD_FAILED as the limit allows, whatever their history.
RetryCountInert ==
    /\ [] \A i \in DOMAIN files : files[i].retry_count = 0
    /\ [][ \A i \in DOMAIN files' :
             files'[i].retry_count = IF i \in DOMAIN files THEN files[i].retry_count ELSE 0
         ]_vars
    /\ [][ \A r \in SerialRuns :
             (pc[r] = "idle" /\ pc'[r] = "selected")
             => LET S == { pending_files'[r][k] : k \in DOMAIN pending_files'[r] }
                IN  /\ S \subseteq EligibleByStatus
                    /\ Cardinality(S) =
                         IF Cardinality(EligibleByStatus) < BatchLimit
                           THEN Cardinality(EligibleByStatus) ELSE BatchLimit
         ]_vars

\* a row whose delivery failed in an earlier run has been selected, claimed
\* and has failed again, and its counter is still 0
FailedTwiceCounterZero ==
    \E r \in SerialRuns :
        /\ pc[r] = "returned"
        /\ ~success[r]
        /\ files[Current(r)].status = "PROCESSING"
        /\ files[Current(r)].notes = "API unreachable or returned error"
        /\ files[Current(r)].retry_count = 0
        /\ \E i \in DOMAIN files : i # Current(r) /\ files[i].status = "LOAD_FAILED"

====
